---------------------------- MODULE Spec2Model ----------------------------
(***************************************************************************)
(* A model of app.py, the Streamlit "AI Data Question Answering Dashboard". *)
(*                                                                         *)
(* Two specifications are given over one set of variables:                 *)
(*   Spec          the script as Streamlit runs it: every user action      *)
(*                 (upload, typing a question, a button click) re-runs the *)
(*                 whole script top to bottom, statement group by          *)
(*                 statement group;                                        *)
(*   SpecPipeline  the pure functions clean_dataframe,                     *)
(*                 build_dataset_snapshot and local_basic_stats_text and   *)
(*                 the prompt templates, applied to every DataFrame of a   *)
(*                 bounded family.                                         *)
(*                                                                         *)
(* Data representation.  A cell is a record [k, n, s]:                     *)
(*   k = "int"   n is the integer                                          *)
(*   k = "float" n is the value in halves (3 is 1.5, 4 is 2.0)             *)
(*   k = "str"   s is the string                                           *)
(*   k = "bool"  n is 1 for True and 0 for False                           *)
(*   k = "na"    a missing value (NaN / pd.NA)                             *)
(* A column is [name, dtype, cells] with dtype the pandas dtype name, and  *)
(* a DataFrame is [nrows, cols, absent], absent for an unassigned name.    *)
(***************************************************************************)
EXTENDS Integers, Sequences, FiniteSets, TLC

VARIABLES
    GROQ_API_KEY,   \* the environment variable read at line 15
    GROQ_CLIENT,    \* TRUE once Groq(api_key=...) has been constructed in this run
    uploaded,       \* the file held by st.file_uploader ("none" or a file name)
    user_question,  \* the text held by st.text_input
    ask_btn,        \* st.button("Ask") in the current run
    summary_btn,    \* st.button("Generate Summary") in the current run
    pc,             \* position of the current script run
    raw,            \* the DataFrame returned by pd.read_csv / pd.read_excel
    df,             \* the DataFrame after clean_dataframe
    df2,            \* clean_dataframe applied to df again (SpecPipeline only)
    snapshot_text,  \* build_dataset_snapshot(df)
    local_stats,    \* local_basic_stats_text(df)
    prompt,         \* the prompt built by the Ask or the Summary handler
    max_rows,       \* the max_rows argument of build_dataset_snapshot
    numeric_limit,  \* the numeric_limit argument of local_basic_stats_text
    invoked,        \* the pipeline functions called so far in this run
    calls,          \* completion calls issued so far in this run
    display,        \* the st.* messages shown so far in this run
    failures        \* the kinds of failure seen so far in the session (history)

vars == <<GROQ_API_KEY, GROQ_CLIENT, uploaded, user_question, ask_btn,
          summary_btn, pc, raw, df, df2, snapshot_text, local_stats, prompt,
          max_rows, numeric_limit, invoked, calls, display, failures>>

-----------------------------------------------------------------------------
(* Bounds of the model.                                                    *)

MaxCols == 3          \* columns of a DataFrame drawn by SpecPipeline
MaxRows == 3          \* rows of a DataFrame drawn by SpecPipeline
MaxRowsArg == 2       \* largest max_rows argument tried by SpecPipeline
MaxLimitArg == 2      \* largest numeric_limit argument tried by SpecPipeline

(* Defaults of the two keyword arguments, used by the script's calls.      *)
DefaultMaxRows == 10
DefaultNumericLimit == 5

-----------------------------------------------------------------------------
(* Cells.                                                                  *)

IntCell(i) == [k |-> "int", n |-> i, s |-> ""]
FloatCell(h) == [k |-> "float", n |-> h, s |-> ""]
StrCell(t) == [k |-> "str", n |-> 0, s |-> t]
BoolCell(b) == [k |-> "bool", n |-> IF b THEN 1 ELSE 0, s |-> ""]
NA == [k |-> "na", n |-> 0, s |-> ""]

None == [nrows |-> 0, cols |-> <<>>, absent |-> TRUE]

Frame(r, cs) == [nrows |-> r, cols |-> cs, absent |-> FALSE]

Min(a, b) == IF a <= b THEN a ELSE b

RECURSIVE SumSeq(_)
SumSeq(s) == IF s = <<>> THEN 0 ELSE Head(s) + SumSeq(Tail(s))

(* str(x) of a Python cell value, as Series.astype(str) applies it.        *)
PyStr(c) ==
    CASE c.k = "int" -> ToString(c.n)
      [] c.k = "float" -> ToString(c.n \div 2) \o (IF c.n % 2 = 0 THEN ".0" ELSE ".5")
      [] c.k = "str" -> c.s
      [] c.k = "bool" -> IF c.n = 1 THEN "True" ELSE "False"
      [] OTHER -> "nan"

(* A cell as DataFrame.to_csv writes it: a missing value is the empty field. *)
CsvCell(c) == IF c.k = "na" THEN "" ELSE PyStr(c)


-----------------------------------------------------------------------------
(* clean_dataframe.                                                        *)

(* Series.str.contains("^Unnamed"): a regex search anchored at the start,  *)
(* so it is true of every name that begins with the seven letters.         *)
str_contains_Unnamed(name) ==
    Len(name) >= 7 /\ SubSeq(name, 1, 7) = "Unnamed"

(* A plausible slip: the export's index column is dropped by position.     *)
DropFirstColumn(d) ==
    Frame(d.nrows, IF d.cols = <<>> THEN <<>> ELSE Tail(d.cols))

(* df.loc[:, ~df.columns.str.contains("^Unnamed")]: the rows (the index)   *)
(* are kept, the columns are filtered in order.                            *)
DropUnnamed(d) ==
    Frame(d.nrows, SelectSeq(d.cols, LAMBDA c : ~str_contains_Unnamed(c.name)))

Present(cells) == {cells[i].k : i \in DOMAIN cells} \ {"na"}

AllIntegral(cells) ==
    \A i \in DOMAIN cells : cells[i].k = "float" => cells[i].n % 2 = 0

AsInt(c) ==
    CASE c.k = "float" -> IntCell(c.n \div 2)
      [] OTHER -> c

AsFloat(c) ==
    CASE c.k = "int" -> FloatCell(2 * c.n)
      [] OTHER -> c

(* A float64 column (or an object column holding only numbers) becomes     *)
(* Int64 when every present value is integral, Float64 otherwise; NaN      *)
(* becomes pd.NA either way.                                               *)
ConvertNumeric(c) ==
    IF AllIntegral(c.cells)
    THEN [c EXCEPT !.dtype = "Int64",
                   !.cells = [i \in DOMAIN c.cells |-> AsInt(c.cells[i])]]
    ELSE [c EXCEPT !.dtype = "Float64",
                   !.cells = [i \in DOMAIN c.cells |-> AsFloat(c.cells[i])]]

(* DataFrame.convert_dtypes() on one column (infer_objects=True): numpy    *)
(* dtypes move to the nullable extension dtypes; an object column moves    *)
(* only when its present values are of one kind; a column that already has *)
(* an extension dtype is returned as it is.                                *)
convert_dtypes(c) ==
    CASE c.dtype = "int64" -> [c EXCEPT !.dtype = "Int64"]
      [] c.dtype = "float64" -> ConvertNumeric(c)
      [] c.dtype = "bool" -> [c EXCEPT !.dtype = "boolean"]
      [] c.dtype = "object" ->
            LET p == Present(c.cells)
            IN  IF p \subseteq {"int", "float"} THEN ConvertNumeric(c)
                ELSE IF p = {"bool"} THEN [c EXCEPT !.dtype = "boolean"]
                ELSE IF p = {"str"} THEN [c EXCEPT !.dtype = "string"]
                ELSE c
      [] OTHER -> c

(* A plausible slip: the loop over the object columns is left out.         *)
KeepObject(c) == c

(* Lines 45-46: df[col] = df[col].astype(str) for the columns that are     *)
(* still object; the result is an object column whose cells are all str    *)
(* (NaN becomes "nan").                                                    *)
force_object_to_str(c) ==
    IF c.dtype = "object"
    THEN [c EXCEPT !.cells = [i \in DOMAIN c.cells |-> StrCell(PyStr(c.cells[i]))]]
    ELSE c

clean_dataframe(d) ==
    LET kept == DropUnnamed(d)
    IN  Frame(kept.nrows,
              [i \in DOMAIN kept.cols |->
                  force_object_to_str(convert_dtypes(kept.cols[i]))])

-----------------------------------------------------------------------------
(* build_dataset_snapshot.                                                 *)

NumericDtypes == {"int64", "float64", "Int64", "Float64"}
TextDtypes == {"string", "object"}

Names(cs) == [i \in DOMAIN cs |-> cs[i].name]

(* df.select_dtypes(include=...) followed by .columns.tolist().            *)
select_dtypes(d, include) == SelectSeq(d.cols, LAMBDA c : c.dtype \in include)

(* df.head(max_rows).to_csv(index=False): the header line, then one line   *)
(* per sample row, each a sequence of fields.                              *)
to_csv(d, n) ==
    <<Names(d.cols)>> \o
    [r \in 1..Min(n, d.nrows) |-> [i \in DOMAIN d.cols |-> CsvCell(d.cols[i].cells[r])]]

(* A plausible slip: the whole table is serialised, not its head.          *)
SnapshotAllRows(d, n) ==
    [shape |-> <<d.nrows, Len(d.cols)>>,
     cols |-> Names(d.cols),
     numeric |-> Names(select_dtypes(d, NumericDtypes)),
     cat |-> Names(select_dtypes(d, TextDtypes)),
     first |-> Min(n, d.nrows),
     rows_text |-> to_csv(d, d.nrows)]

(* The f-string of lines 57-65 as the record of the values it embeds.      *)
build_dataset_snapshot(d, n) ==
    [shape |-> <<d.nrows, Len(d.cols)>>,
     cols |-> Names(d.cols),
     numeric |-> Names(select_dtypes(d, NumericDtypes)),
     cat |-> Names(select_dtypes(d, TextDtypes)),
     first |-> Min(n, d.nrows),
     rows_text |-> to_csv(d, n)]

-----------------------------------------------------------------------------
(* local_basic_stats_text.  Numbers are carried in thousandths, the        *)
(* precision of the ":.3f" format.                                         *)

Milli(c) == IF c.k = "float" THEN 500 * c.n ELSE 1000 * c.n

(* The present values of a column, in row order (describe() and median()   *)
(* skip missing values).                                                   *)
Vals(c) ==
    LET present == SelectSeq(c.cells, LAMBDA x : x.k # "na")
    IN  [i \in DOMAIN present |-> Milli(present[i])]

RECURSIVE Insert(_, _)
Insert(x, s) ==
    IF s = <<>> THEN <<x>>
    ELSE IF x <= Head(s) THEN <<x>> \o s
    ELSE <<Head(s)>> \o Insert(x, Tail(s))

RECURSIVE Sorted(_)
Sorted(s) == IF s = <<>> THEN <<>> ELSE Insert(Head(s), Sorted(Tail(s)))

(* a / b rounded to the nearest integer, a >= 0 and b > 0.                 *)
RoundDiv(a, b) == (2 * a + b) \div (2 * b)

(* The largest s in lo..hi with (2s - 1)^2 * d <= 4n: sqrt(n / d) rounded  *)
(* to the nearest integer.                                                 *)
RECURSIVE RoundSqrt(_, _, _, _)
RoundSqrt(lo, hi, n, d) ==
    IF lo >= hi THEN lo
    ELSE LET mid == (lo + hi + 1) \div 2
         IN  IF (2 * mid - 1) * (2 * mid - 1) * d <= 4 * n
             THEN RoundSqrt(mid, hi, n, d)
             ELSE RoundSqrt(lo, mid - 1, n, d)

Fmt0(n) == ToString(n)

(* f"{x:.3f}" of a value given in thousandths.                             *)
Fmt3(m) ==
    LET frac == m % 1000
    IN  ToString(m \div 1000) \o "." \o
        (IF frac < 10 THEN "00" ELSE IF frac < 100 THEN "0" ELSE "") \o ToString(frac)

(* Line 84 for one numeric column.  A statistic of no values, and the      *)
(* sample standard deviation of fewer than two, is not a number.           *)
StatsLine(c) ==
    LET v == Sorted(Vals(c))
        cnt == Len(v)
        sum == SumSeq(v)
        sq == SumSeq([i \in DOMAIN v |-> v[i] * v[i]])
        mean == IF cnt = 0 THEN "nan" ELSE Fmt3(RoundDiv(sum, cnt))
        median == IF cnt = 0 THEN "nan"
                  ELSE IF cnt % 2 = 1 THEN Fmt3(v[(cnt + 1) \div 2])
                  ELSE Fmt3(RoundDiv(v[cnt \div 2] + v[cnt \div 2 + 1], 2))
        std == IF cnt < 2 THEN "nan"
               ELSE Fmt3(RoundSqrt(0, v[cnt] - v[1] + 1,
                                   cnt * sq - sum * sum, cnt * (cnt - 1)))
        min_val == IF cnt = 0 THEN "nan" ELSE Fmt3(v[1])
        max_val == IF cnt = 0 THEN "nan" ELSE Fmt3(v[cnt])
    IN  "- " \o c.name \o ": mean=" \o mean \o ", median=" \o median \o
        ", std=" \o std \o ", min=" \o min_val \o ", max=" \o max_val \o
        ", n=" \o Fmt0(cnt)

NoNumeric == "No numeric columns detected."

MoreLine(k) == "...and " \o ToString(k) \o " more numeric columns."

(* A plausible slip: ">=" for ">" in the test of line 86.                  *)
StatsTailAtLimit(d, limit) ==
    LET nums == select_dtypes(d, NumericDtypes)
    IN  IF Len(nums) = 0 THEN <<NoNumeric>>
        ELSE [i \in 1..Min(limit, Len(nums)) |-> StatsLine(nums[i])] \o
             (IF Len(nums) >= limit THEN <<MoreLine(Len(nums) - limit)>> ELSE <<>>)

(* The returned text as the sequence of the lines joined by "\n".          *)
local_basic_stats_text(d, limit) ==
    LET nums == select_dtypes(d, NumericDtypes)
    IN  IF Len(nums) = 0 THEN <<NoNumeric>>
        ELSE [i \in 1..Min(limit, Len(nums)) |-> StatsLine(nums[i])] \o
             (IF Len(nums) > limit THEN <<MoreLine(Len(nums) - limit)>> ELSE <<>>)

-----------------------------------------------------------------------------
(* The two prompt templates, as records of the values they embed.          *)

NoSnapshot ==
    [shape |-> <<0, 0>>, cols |-> <<>>, numeric |-> <<>>, cat |-> <<>>,
     first |-> 0, rows_text |-> <<>>]

NoStats == <<>>

NoPrompt ==
    [template |-> "none", snapshot |-> NoSnapshot, stats |-> NoStats, question |-> ""]

AskPrompt(snap, stats, q) ==
    [template |-> "ask", snapshot |-> snap, stats |-> stats, question |-> q]

SummaryPrompt(snap, stats) ==
    [template |-> "summary", snapshot |-> snap, stats |-> stats, question |-> ""]

(* The data items a prompt embeds: the names of the three column lists,    *)
(* the fields of the CSV sample (header included) and the stats lines.     *)
SnapshotItems(snap) ==
    Len(snap.cols) + Len(snap.numeric) + Len(snap.cat) +
    SumSeq([i \in DOMAIN snap.rows_text |-> Len(snap.rows_text[i])])

PromptItems(p) ==
    SnapshotItems(p.snapshot) + Len(p.stats)

-----------------------------------------------------------------------------
(* The DataFrames SpecPipeline draws: what pd.read_csv / pd.read_excel can *)
(* return for small files.  Column names are distinct (the readers mangle  *)
(* duplicates), every column has the frame's number of rows, and the cells *)
(* of a column agree with its numpy dtype; an object column mixes kinds.   *)
(* clean_dataframe treats the columns one by one, so a frame holds one     *)
(* column with every combination of cells, at any position, and plain      *)
(* integer, text and boolean columns around it.                            *)

NameList == <<"Unnamed: 0", "Unnamed", "Sales", "Name", "Qty">>

RawDtypes == {"int64", "float64", "bool", "object"}

RawCells(dtype) ==
    CASE dtype = "int64" -> {IntCell(1), IntCell(2)}
      [] dtype = "float64" -> {FloatCell(3), FloatCell(4), NA}
      [] dtype = "bool" -> {BoolCell(TRUE)}
      [] OTHER -> {IntCell(1), StrCell("a"), BoolCell(TRUE), NA}

Bodies(r) ==
    UNION {{[dtype |-> d, cells |-> cs] : cs \in [1..r -> RawCells(d)]} : d \in RawDtypes}

PlainBodies(r) ==
    {[dtype |-> "int64", cells |-> [i \in 1..r |-> IntCell(1 + (i % 2))]],
     [dtype |-> "object", cells |-> [i \in 1..r |-> StrCell("a")]],
     [dtype |-> "bool", cells |-> [i \in 1..r |-> BoolCell(TRUE)]]}

NameChoices(k) ==
    {ns \in [1..k -> 1..Len(NameList)] : \A i, j \in 1..k : i < j => ns[i] < ns[j]}

Column(name, body) == [name |-> name, dtype |-> body.dtype, cells |-> body.cells]

FramesOf(r, k) ==
    IF k = 0 THEN {Frame(r, <<>>)}
    ELSE {Frame(r, [i \in 1..k |->
                      Column(NameList[ns[i]], IF i = v THEN b ELSE f[i])]) :
             ns \in NameChoices(k), v \in 1..k, b \in Bodies(r),
             f \in [1..k -> PlainBodies(r)]}

(* Wide frames are short and long frames are narrow: r * k <= MaxCols + 1. *)
RawFrames ==
    UNION {FramesOf(rk[1], rk[2]) :
             rk \in {x \in (0..MaxRows) \X (0..MaxCols) : x[1] * x[2] <= MaxCols + 1}}

-----------------------------------------------------------------------------
(* SpecPipeline: the pure functions applied in the order the script calls  *)
(* them, to every frame of RawFrames and every argument in range.          *)

PInit ==
    /\ raw \in RawFrames
    /\ pc = "p_raw"
    /\ df = None
    /\ df2 = None
    /\ snapshot_text = NoSnapshot
    /\ local_stats = NoStats
    /\ prompt = NoPrompt
    /\ max_rows = 0
    /\ numeric_limit = 0
    /\ user_question = "q"
    /\ GROQ_API_KEY = "key"
    /\ GROQ_CLIENT = FALSE
    /\ uploaded = "none"
    /\ ask_btn = FALSE
    /\ summary_btn = FALSE
    /\ invoked = {}
    /\ calls = 0
    /\ display = <<>>
    /\ failures = {}

PUnused ==
    UNCHANGED <<GROQ_API_KEY, GROQ_CLIENT, uploaded, user_question, ask_btn,
                summary_btn, raw, invoked, calls, display, failures>>

PSanitize ==
    /\ pc = "p_raw"
    /\ df' = clean_dataframe(raw)
    /\ pc' = "p_clean"
    /\ UNCHANGED <<df2, snapshot_text, local_stats, prompt, max_rows, numeric_limit>>
    /\ PUnused

PResanitize ==
    /\ pc = "p_clean"
    /\ df2' = clean_dataframe(df)
    /\ pc' = "p_clean2"
    /\ UNCHANGED <<df, snapshot_text, local_stats, prompt, max_rows, numeric_limit>>
    /\ PUnused

PSnapshot ==
    /\ pc = "p_clean2"
    /\ \E n \in 1..MaxRowsArg :
          /\ max_rows' = n
          /\ snapshot_text' = build_dataset_snapshot(df, n)
    /\ pc' = "p_snap"
    /\ UNCHANGED <<df, df2, local_stats, prompt, numeric_limit>>
    /\ PUnused

PStats ==
    /\ pc = "p_snap"
    /\ \E limit \in 1..MaxLimitArg :
          /\ numeric_limit' = limit
          /\ local_stats' = local_basic_stats_text(df, limit)
    /\ pc' = "p_stats"
    /\ UNCHANGED <<df, df2, snapshot_text, prompt, max_rows>>
    /\ PUnused

PAsk ==
    /\ pc = "p_stats"
    /\ prompt' = AskPrompt(snapshot_text, local_stats, user_question)
    /\ pc' = "p_asked"
    /\ UNCHANGED <<df, df2, snapshot_text, local_stats, max_rows, numeric_limit>>
    /\ PUnused

PSummary ==
    /\ pc = "p_stats"
    /\ prompt' = SummaryPrompt(snapshot_text, local_stats)
    /\ pc' = "p_summarised"
    /\ UNCHANGED <<df, df2, snapshot_text, local_stats, max_rows, numeric_limit>>
    /\ PUnused

PNext == PSanitize \/ PResanitize \/ PSnapshot \/ PStats \/ PAsk \/ PSummary

SpecPipeline == PInit /\ [][PNext]_vars

-----------------------------------------------------------------------------
(* Spec: the script as Streamlit runs it.  A user action sets the widget   *)
(* state and starts a run; the run resets every script variable and walks  *)
(* the script from line 8; st.stop() ends the run where it is called.      *)
(* Streamlit reports at most one button as pressed per run, and a button   *)
(* is pressed only if the previous run rendered it.                        *)

NoValue == "<None>"                  \* os.environ.get found no variable
Keys == {NoValue, "", "gsk_key"}

Questions == {"", " ", "Which manufacturer has highest total sales?"}

NoFile == "none"
FileNames == {"sales.csv", "flags.xlsx", "broken.csv"}

(* What the reader makes of each file; "broken.csv" makes it raise.        *)
FileContent(name) ==
    CASE name = "sales.csv" ->
            [readable |-> TRUE,
             frame |-> Frame(3,
                <<[name |-> "Unnamed: 0", dtype |-> "int64",
                   cells |-> <<IntCell(0), IntCell(1), IntCell(2)>>],
                  [name |-> "Manufacturer", dtype |-> "object",
                   cells |-> <<StrCell("Acme"), StrCell("Acme"), StrCell("Globex")>>],
                  [name |-> "Sales", dtype |-> "int64",
                   cells |-> <<IntCell(1), IntCell(2), IntCell(3)>>]>>)]
      [] name = "flags.xlsx" ->
            [readable |-> TRUE,
             frame |-> Frame(2,
                <<[name |-> "Active", dtype |-> "bool",
                   cells |-> <<BoolCell(TRUE), BoolCell(FALSE)>>],
                  [name |-> "Notes", dtype |-> "object",
                   cells |-> <<IntCell(1), StrCell("a")>>],
                  [name |-> "Price", dtype |-> "float64",
                   cells |-> <<FloatCell(3), NA>>]>>)]
      [] OTHER -> [readable |-> FALSE, frame |-> None]

Title == "title: AI Data Question Answering Dashboard (Groq API)"
KeyErrorMsg == "error: GROQ_API_KEY environment variable not found."
KeyInfoMsg == "info: Please set the variable in your terminal before running the app"
Uploader == "file_uploader"
ReadErrorMsg == "error: Error reading file"
SuccessMsg == "success: File uploaded successfully! You can now ask questions."
HeadTable == "write: df.head()"
TextInput == "text_input"
AskButton == "button: Ask"
SummaryButton == "button: Generate Summary"
AnswerMsg == "write: AI Answer"
SummaryMsg == "write: Generated Summary"
GroqErrorMsg == "error: Groq API Error"
GroqHintMsg == "info: Please verify your Groq API key is correct."
BeginMsg == "info: Upload a CSV or Excel file to begin."
CaptionMsg == "caption: This app uses the blazing-fast Groq API for computation."

Idle == pc \in {"done", "stopped"}

(* Whether the current run has rendered an element.                        *)
InDisplay(x) == \E i \in DOMAIN display : display[i] = x

Init ==
    /\ GROQ_API_KEY \in Keys
    /\ GROQ_CLIENT = FALSE
    /\ uploaded = NoFile
    /\ user_question = ""
    /\ ask_btn = FALSE
    /\ summary_btn = FALSE
    /\ pc = "keycheck"
    /\ raw = None
    /\ df = None
    /\ df2 = None
    /\ snapshot_text = NoSnapshot
    /\ local_stats = NoStats
    /\ prompt = NoPrompt
    /\ max_rows = 0
    /\ numeric_limit = 0
    /\ invoked = {}
    /\ calls = 0
    /\ display = <<Title>>
    /\ failures = {}

(* The start of a run: a fresh namespace, the page title of lines 8-9.     *)
BeginRun ==
    /\ pc' = "keycheck"
    /\ GROQ_CLIENT' = FALSE
    /\ raw' = None
    /\ df' = None
    /\ snapshot_text' = NoSnapshot
    /\ local_stats' = NoStats
    /\ prompt' = NoPrompt
    /\ max_rows' = 0
    /\ numeric_limit' = 0
    /\ invoked' = {}
    /\ calls' = 0
    /\ display' = <<Title>>
    /\ UNCHANGED <<GROQ_API_KEY, df2, failures>>

(* User actions. *)

Rerun ==
    /\ Idle
    /\ ask_btn' = FALSE
    /\ summary_btn' = FALSE
    /\ UNCHANGED <<uploaded, user_question>>
    /\ BeginRun

Upload ==
    /\ Idle
    /\ InDisplay(Uploader)
    /\ \E f \in FileNames \cup {NoFile} :
          /\ f # uploaded
          /\ uploaded' = f
    /\ ask_btn' = FALSE
    /\ summary_btn' = FALSE
    /\ UNCHANGED user_question
    /\ BeginRun

TypeQuestion ==
    /\ Idle
    /\ InDisplay(TextInput)
    /\ \E q \in Questions :
          /\ q # user_question
          /\ user_question' = q
    /\ ask_btn' = FALSE
    /\ summary_btn' = FALSE
    /\ UNCHANGED uploaded
    /\ BeginRun

ClickAsk ==
    /\ Idle
    /\ InDisplay(AskButton)
    /\ ask_btn' = TRUE
    /\ summary_btn' = FALSE
    /\ UNCHANGED <<uploaded, user_question>>
    /\ BeginRun

ClickSummary ==
    /\ Idle
    /\ InDisplay(SummaryButton)
    /\ ask_btn' = FALSE
    /\ summary_btn' = TRUE
    /\ UNCHANGED <<uploaded, user_question>>
    /\ BeginRun

(* The steps of a run. *)

Widgets == <<uploaded, user_question, ask_btn, summary_btn>>
Assets == <<raw, df, df2, snapshot_text, local_stats, max_rows, numeric_limit>>

(* A plausible slip: "if GROQ_API_KEY is None".                            *)
key_is_none == GROQ_API_KEY = NoValue

(* Line 17: "not GROQ_API_KEY" is true of None and of the empty string.    *)
key_missing == GROQ_API_KEY \in {NoValue, ""}

(* Lines 17-21. *)
KeyCheckStops ==
    /\ pc = "keycheck"
    /\ key_missing
    /\ display' = display \o <<KeyErrorMsg, KeyInfoMsg>>
    /\ pc' = "stopped"
    /\ UNCHANGED <<GROQ_API_KEY, GROQ_CLIENT, prompt, invoked, calls, failures>>
    /\ UNCHANGED Widgets
    /\ UNCHANGED Assets

(* Lines 24-25 and 98, when no file is held: lines 204-207.                *)
ClientInitNoFile ==
    /\ pc = "keycheck"
    /\ ~key_missing
    /\ uploaded = NoFile
    /\ GROQ_CLIENT' = TRUE
    /\ display' = display \o <<Uploader, BeginMsg, CaptionMsg>>
    /\ pc' = "done"
    /\ UNCHANGED <<GROQ_API_KEY, prompt, invoked, calls, failures>>
    /\ UNCHANGED Widgets
    /\ UNCHANGED Assets

(* Lines 24-25, 98 and 103. *)
ClientInitWithFile ==
    /\ pc = "keycheck"
    /\ ~key_missing
    /\ uploaded # NoFile
    /\ GROQ_CLIENT' = TRUE
    /\ display' = Append(display, Uploader)
    /\ pc' = "read"
    /\ UNCHANGED <<GROQ_API_KEY, prompt, invoked, calls, failures>>
    /\ UNCHANGED Widgets
    /\ UNCHANGED Assets

(* Lines 105-109, the reader returns. *)
ReadOk ==
    /\ pc = "read"
    /\ FileContent(uploaded).readable
    /\ raw' = FileContent(uploaded).frame
    /\ invoked' = invoked \cup {"read"}
    /\ pc' = "clean"
    /\ UNCHANGED <<GROQ_API_KEY, GROQ_CLIENT, prompt, calls, display, failures>>
    /\ UNCHANGED Widgets
    /\ UNCHANGED <<df, df2, snapshot_text, local_stats, max_rows, numeric_limit>>

(* A plausible slip: the except branch shows the error and falls through.  *)
ReadFailsNoStop ==
    /\ pc = "read"
    /\ ~FileContent(uploaded).readable
    /\ invoked' = invoked \cup {"read"}
    /\ display' = Append(display, ReadErrorMsg)
    /\ failures' = failures \cup {"read"}
    /\ pc' = "clean"
    /\ UNCHANGED <<GROQ_API_KEY, GROQ_CLIENT, prompt, calls>>
    /\ UNCHANGED Widgets
    /\ UNCHANGED Assets

(* Lines 105-112, the reader raises: st.error, st.stop. *)
ReadFails ==
    /\ pc = "read"
    /\ ~FileContent(uploaded).readable
    /\ invoked' = invoked \cup {"read"}
    /\ display' = Append(display, ReadErrorMsg)
    /\ failures' = failures \cup {"read"}
    /\ pc' = "stopped"
    /\ UNCHANGED <<GROQ_API_KEY, GROQ_CLIENT, prompt, calls>>
    /\ UNCHANGED Widgets
    /\ UNCHANGED Assets

(* Lines 114-117. *)
Clean ==
    /\ pc = "clean"
    /\ df' = clean_dataframe(raw)
    /\ invoked' = invoked \cup {"clean_dataframe"}
    /\ display' = display \o <<SuccessMsg, HeadTable>>
    /\ pc' = "assets"
    /\ UNCHANGED <<GROQ_API_KEY, GROQ_CLIENT, prompt, calls, failures>>
    /\ UNCHANGED Widgets
    /\ UNCHANGED <<raw, df2, snapshot_text, local_stats, max_rows, numeric_limit>>

(* Lines 120-132. *)
BuildAssets ==
    /\ pc = "assets"
    /\ max_rows' = DefaultMaxRows
    /\ numeric_limit' = DefaultNumericLimit
    /\ snapshot_text' = build_dataset_snapshot(df, DefaultMaxRows)
    /\ local_stats' = local_basic_stats_text(df, DefaultNumericLimit)
    /\ invoked' = invoked \cup {"build_dataset_snapshot", "local_basic_stats_text"}
    /\ display' = display \o <<TextInput, AskButton, SummaryButton>>
    /\ pc' = "ask"
    /\ UNCHANGED <<GROQ_API_KEY, GROQ_CLIENT, prompt, calls, failures>>
    /\ UNCHANGED Widgets
    /\ UNCHANGED <<raw, df, df2>>

(* A plausible slip: the test of the question text is left out.            *)
ask_btn_only == ask_btn

(* Line 137: the empty string is falsy, every other string is truthy.      *)
ask_condition == ask_btn /\ user_question # ""

(* Line 137, the test fails. *)
AskSkipped ==
    /\ pc = "ask"
    /\ ~ask_condition
    /\ pc' = "summary"
    /\ UNCHANGED <<GROQ_API_KEY, GROQ_CLIENT, prompt, invoked, calls, display, failures>>
    /\ UNCHANGED Widgets
    /\ UNCHANGED Assets

(* Lines 137-152. *)
AskBuildsPrompt ==
    /\ pc = "ask"
    /\ ask_condition
    /\ prompt' = AskPrompt(snapshot_text, local_stats, user_question)
    /\ invoked' = invoked \cup {"prompt"}
    /\ pc' = "ask_call"
    /\ UNCHANGED <<GROQ_API_KEY, GROQ_CLIENT, calls, display, failures>>
    /\ UNCHANGED Widgets
    /\ UNCHANGED Assets

(* Lines 154-164, the call returns. *)
AskCompletes ==
    /\ pc = "ask_call"
    /\ calls' = calls + 1
    /\ invoked' = invoked \cup {"completion"}
    /\ display' = Append(display, AnswerMsg)
    /\ pc' = "summary"
    /\ UNCHANGED <<GROQ_API_KEY, GROQ_CLIENT, prompt, failures>>
    /\ UNCHANGED Widgets
    /\ UNCHANGED Assets

(* A plausible slip: the handler calls again after an error.               *)
AskRetries ==
    /\ pc = "ask_call"
    /\ calls < 2
    /\ calls' = calls + 1
    /\ invoked' = invoked \cup {"completion"}
    /\ display' = display \o <<GroqErrorMsg, GroqHintMsg>>
    /\ failures' = failures \cup {"completion"}
    /\ pc' = IF calls = 0 THEN "ask_call" ELSE "summary"
    /\ UNCHANGED <<GROQ_API_KEY, GROQ_CLIENT, prompt>>
    /\ UNCHANGED Widgets
    /\ UNCHANGED Assets

(* Lines 154-168, the call raises: st.error, st.info. *)
AskFails ==
    /\ pc = "ask_call"
    /\ calls' = calls + 1
    /\ invoked' = invoked \cup {"completion"}
    /\ display' = display \o <<GroqErrorMsg, GroqHintMsg>>
    /\ failures' = failures \cup {"completion"}
    /\ pc' = "summary"
    /\ UNCHANGED <<GROQ_API_KEY, GROQ_CLIENT, prompt>>
    /\ UNCHANGED Widgets
    /\ UNCHANGED Assets

(* Line 173, the button was not pressed: the run ends. *)
SummarySkipped ==
    /\ pc = "summary"
    /\ ~summary_btn
    /\ pc' = "done"
    /\ UNCHANGED <<GROQ_API_KEY, GROQ_CLIENT, prompt, invoked, calls, display, failures>>
    /\ UNCHANGED Widgets
    /\ UNCHANGED Assets

(* Lines 173-186. *)
SummaryBuildsPrompt ==
    /\ pc = "summary"
    /\ summary_btn
    /\ prompt' = SummaryPrompt(snapshot_text, local_stats)
    /\ invoked' = invoked \cup {"prompt"}
    /\ pc' = "summary_call"
    /\ UNCHANGED <<GROQ_API_KEY, GROQ_CLIENT, calls, display, failures>>
    /\ UNCHANGED Widgets
    /\ UNCHANGED Assets

(* Lines 188-198, the call returns. *)
SummaryCompletes ==
    /\ pc = "summary_call"
    /\ calls' = calls + 1
    /\ invoked' = invoked \cup {"completion"}
    /\ display' = Append(display, SummaryMsg)
    /\ pc' = "done"
    /\ UNCHANGED <<GROQ_API_KEY, GROQ_CLIENT, prompt, failures>>
    /\ UNCHANGED Widgets
    /\ UNCHANGED Assets

(* A plausible slip: the except branch drops the table it was given.       *)
SummaryFailsDropsTable ==
    /\ pc = "summary_call"
    /\ calls' = calls + 1
    /\ invoked' = invoked \cup {"completion"}
    /\ display' = display \o <<GroqErrorMsg, GroqHintMsg>>
    /\ failures' = failures \cup {"completion"}
    /\ df' = None
    /\ pc' = "done"
    /\ UNCHANGED <<GROQ_API_KEY, GROQ_CLIENT, prompt>>
    /\ UNCHANGED Widgets
    /\ UNCHANGED <<raw, df2, snapshot_text, local_stats, max_rows, numeric_limit>>

(* Lines 188-202, the call raises: st.error, st.info. *)
SummaryFails ==
    /\ pc = "summary_call"
    /\ calls' = calls + 1
    /\ invoked' = invoked \cup {"completion"}
    /\ display' = display \o <<GroqErrorMsg, GroqHintMsg>>
    /\ failures' = failures \cup {"completion"}
    /\ pc' = "done"
    /\ UNCHANGED <<GROQ_API_KEY, GROQ_CLIENT, prompt>>
    /\ UNCHANGED Widgets
    /\ UNCHANGED Assets

Next ==
    \/ Rerun \/ Upload \/ TypeQuestion \/ ClickAsk \/ ClickSummary
    \/ KeyCheckStops \/ ClientInitNoFile \/ ClientInitWithFile
    \/ ReadOk \/ ReadFails \/ Clean \/ BuildAssets
    \/ AskSkipped \/ AskBuildsPrompt \/ AskCompletes \/ AskFails
    \/ SummarySkipped \/ SummaryBuildsPrompt \/ SummaryCompletes \/ SummaryFails

Spec == Init /\ [][Next]_vars

-----------------------------------------------------------------------------
(* Vocabulary of the properties.                                           *)

HasPrefix(str, pre) == Len(str) >= Len(pre) /\ SubSeq(str, 1, Len(pre)) = pre

Digits == {"0", "1", "2", "3", "4", "5", "6", "7", "8", "9"}

AllDigits(str) == Len(str) >= 1 /\ \A i \in 1..Len(str) : SubSeq(str, i, i) \in Digits

(* The artifact pattern of a spreadsheet export's index column: "Unnamed:" *)
(* followed by digits (pandas writes one space between them).              *)
IsArtifactName(name) ==
    /\ HasPrefix(name, "Unnamed:")
    /\ LET rest == SubSeq(name, 9, Len(name))
       IN  AllDigits(IF HasPrefix(rest, " ") THEN SubSeq(rest, 2, Len(rest)) ELSE rest)

InSeq(x, seq) == \E i \in DOMAIN seq : seq[i] = x

(* The semantic kind of a column, from its dtype.                          *)
Kind(dtype) ==
    CASE dtype \in {"int64", "Int64"} -> "Integer"
      [] dtype \in {"float64", "Float64"} -> "Float"
      [] dtype \in {"string", "object"} -> "Text"
      [] OTHER -> "Other"

CellKinds(col) == {col.cells[i].k : i \in DOMAIN col.cells}

Cleaned == {"p_clean", "p_clean2", "p_snap", "p_stats", "p_asked", "p_summarised"}
Recleaned == Cleaned \ {"p_clean"}
Snapshotted == Recleaned \ {"p_clean2"}
Summarised == Snapshotted \ {"p_snap"}
Prompted == {"p_asked", "p_summarised"}

(* The numeric columns of the cleaned table, in table order.               *)
CleanNumeric == SelectSeq(df.cols, LAMBDA c : Kind(c.dtype) \in {"Integer", "Float"})

-----------------------------------------------------------------------------
(* C5: clean_dataframe removes exactly the artifact columns: the output    *)
(* holds, in order, the input's columns whose name is not "Unnamed:"       *)
(* followed by digits; "Unnamed: 0" is removed and "Unnamed" is kept.      *)
C5_ExactlyArtifactsRemoved ==
    pc \in Cleaned =>
        Names(df.cols) =
            Names(SelectSeq(raw.cols, LAMBDA c : ~IsArtifactName(c.name)))

-----------------------------------------------------------------------------
(* C6 as stated: every column of the cleaned table has one of the kinds    *)
(* Integer, Float and Text, every present cell is an integer, a float or a *)
(* string, and every column is in exactly one of the snapshot's numeric    *)
(* and text lists.                                                         *)
C6_ThreeKindsOnly ==
    pc \in Snapshotted =>
        \A i \in DOMAIN df.cols :
            LET c == df.cols[i]
            IN  /\ Kind(c.dtype) \in {"Integer", "Float", "Text"}
                /\ CellKinds(c) \subseteq {"int", "float", "str", "na"}
                /\ InSeq(c.name, snapshot_text.numeric) # InSeq(c.name, snapshot_text.cat)

(* C6 as amended: a column of booleans keeps a fourth kind, the nullable   *)
(* boolean dtype, holds booleans and is in neither list; every other       *)
(* column is Integer, Float or Text, its present cells are integers,       *)
(* floats or strings accordingly (a force-coerced column holds strings     *)
(* only), and it is in exactly one list: the numeric one iff its kind is   *)
(* Integer or Float.                                                       *)
C6_KindsWithBoolean ==
    pc \in Snapshotted =>
        \A i \in DOMAIN df.cols :
            LET c == df.cols[i]
                inNum == InSeq(c.name, snapshot_text.numeric)
                inCat == InSeq(c.name, snapshot_text.cat)
            IN  CASE c.dtype = "Int64" ->
                        CellKinds(c) \subseteq {"int", "na"} /\ inNum /\ ~inCat
                  [] c.dtype = "Float64" ->
                        CellKinds(c) \subseteq {"float", "na"} /\ inNum /\ ~inCat
                  [] c.dtype = "string" ->
                        CellKinds(c) \subseteq {"str", "na"} /\ inCat /\ ~inNum
                  [] c.dtype = "object" ->
                        CellKinds(c) \subseteq {"str"} /\ inCat /\ ~inNum
                  [] c.dtype = "boolean" ->
                        CellKinds(c) \subseteq {"bool", "na"} /\ ~inNum /\ ~inCat
                  [] OTHER -> FALSE

(* A snapshot of a table with a boolean column beside a column of mixed    *)
(* cells that was forced to strings.                                       *)
C6_Witness ==
    /\ pc \in Snapshotted
    /\ \E i \in DOMAIN df.cols : df.cols[i].dtype = "boolean"
    /\ \E i \in DOMAIN raw.cols :
          /\ raw.cols[i].dtype = "object"
          /\ {"int", "str"} \subseteq CellKinds(raw.cols[i])
          /\ InSeq(raw.cols[i].name, snapshot_text.cat)

-----------------------------------------------------------------------------
(* C7: with n numeric columns in the cleaned table and numeric_limit L,    *)
(* the report is the sentinel when n = 0; otherwise it is min(n, L)        *)
(* per-column lines, the i-th for the i-th numeric column in table order,  *)
(* followed by "...and (n - L) more numeric columns." iff n > L.           *)
C7_StatsLines ==
    pc \in Summarised =>
        LET n == Len(CleanNumeric)
            m == Min(n, numeric_limit)
        IN  IF n = 0 THEN local_stats = <<"No numeric columns detected.">>
            ELSE /\ Len(local_stats) = m + (IF n > numeric_limit THEN 1 ELSE 0)
                 /\ \A i \in 1..m :
                       HasPrefix(local_stats[i], "- " \o CleanNumeric[i].name \o ": mean=")
                 /\ n > numeric_limit =>
                       local_stats[m + 1] =
                           "...and " \o ToString(n - numeric_limit) \o " more numeric columns."

(* A report cut at the limit with two columns left out, behind a column    *)
(* that is not numeric.                                                    *)
C7_Witness ==
    /\ pc \in Summarised
    /\ Len(CleanNumeric) = numeric_limit + 2
    /\ Len(local_stats) = numeric_limit + 1
    /\ local_stats[numeric_limit + 1] = "...and 2 more numeric columns."

-----------------------------------------------------------------------------
(* C8: clean_dataframe applied to its own output returns the same table:   *)
(* the same columns in the same order, of the same kinds, with the same    *)
(* cells.                                                                  *)
C8_Idempotent ==
    pc \in Recleaned =>
        /\ df2.nrows = df.nrows
        /\ Names(df2.cols) = Names(df.cols)
        /\ \A i \in DOMAIN df.cols :
              /\ Kind(df2.cols[i].dtype) = Kind(df.cols[i].dtype)
              /\ df2.cols[i].cells = df.cols[i].cells

(* A second pass over a table that lost a column and had a column of mixed *)
(* cells forced to strings on the first pass.                              *)
C8_Witness ==
    /\ pc \in Recleaned
    /\ Len(df.cols) < Len(raw.cols)
    /\ \E i \in DOMAIN df.cols :
          /\ df.cols[i].dtype = "object"
          /\ \E j \in DOMAIN raw.cols :
                /\ raw.cols[j].name = df.cols[i].name
                /\ raw.cols[j].cells # df.cols[i].cells

-----------------------------------------------------------------------------
(* C9.  The prompt the pipeline builds for another frame, with the         *)
(* arguments, the template and the question of the current state.          *)
PromptFor(frame) ==
    LET d == clean_dataframe(frame)
        snap == build_dataset_snapshot(d, max_rows)
        stats == local_basic_stats_text(d, numeric_limit)
    IN  IF prompt.template = "ask" THEN AskPrompt(snap, stats, user_question)
        ELSE SummaryPrompt(snap, stats)

(* The frame with one more integer column.                                 *)
Wider(frame) ==
    Frame(frame.nrows,
          Append(frame.cols,
                 [name |-> "Extra", dtype |-> "int64",
                  cells |-> [i \in 1..frame.nrows |-> IntCell(1)]]))

(* The frame with its last row repeated.                                   *)
Longer(frame) ==
    Frame(frame.nrows + 1,
          [i \in DOMAIN frame.cols |->
              [frame.cols[i] EXCEPT
                  !.cells = Append(@, frame.cols[i].cells[frame.nrows])]])

(* C9 as stated: once the table fills both caps (max_rows rows,            *)
(* numeric_limit numeric columns), a larger table, by a row or by a        *)
(* column, gives a prompt with no more data items.                         *)
C9_NoGrowthWithTable ==
    (/\ pc \in Prompted
     /\ raw.nrows >= max_rows
     /\ Len(CleanNumeric) >= numeric_limit) =>
        /\ PromptItems(PromptFor(Longer(raw))) <= PromptItems(prompt)
        /\ PromptItems(PromptFor(Wider(raw))) <= PromptItems(prompt)

(* C9 as amended: the data items of the prompt are bounded by              *)
(* cols * (max_rows + 3) + numeric_limit + 1, cols the number of columns   *)
(* of the cleaned table: a bound that does not depend on the row count and *)
(* grows with the column count.                                            *)
C9_BoundedByRowsCapAndColumns ==
    pc \in Prompted =>
        PromptItems(prompt) <= Len(df.cols) * (max_rows + 3) + numeric_limit + 1

(* A prompt for a table with more rows than max_rows that meets the bound. *)
C9_Witness ==
    /\ pc \in Prompted
    /\ raw.nrows > max_rows
    /\ Len(df.cols) >= 2
    /\ PromptItems(prompt) = Len(df.cols) * (max_rows + 3) + numeric_limit + 1

-----------------------------------------------------------------------------
(* Vocabulary of the properties of Spec.                                   *)

ErrorMsgs == {KeyErrorMsg, ReadErrorMsg, GroqErrorMsg}

ErrorShown == \E i \in DOMAIN display : display[i] \in ErrorMsgs

PipelineFunctions ==
    {"read", "clean_dataframe", "build_dataset_snapshot", "local_basic_stats_text"}

(* What a run computes from the file the uploader holds.                   *)
FreshFrame == clean_dataframe(FileContent(uploaded).frame)
FreshSnapshot == build_dataset_snapshot(FreshFrame, 10)
FreshStats == local_basic_stats_text(FreshFrame, 5)

-----------------------------------------------------------------------------
(* C1: in a run started by pressing Ask with an empty question, no prompt  *)
(* is built, no completion call is issued and no error is shown, whatever  *)
(* happened in the session before.                                         *)
C1_EmptyQuestionNoOp ==
    (ask_btn /\ user_question = "") =>
        /\ prompt = NoPrompt
        /\ "prompt" \notin invoked
        /\ "completion" \notin invoked
        /\ calls = 0
        /\ ~ErrorShown

(* Such a run, finished, in a session that has seen a completion fail.     *)
C1_Witness ==
    /\ pc = "done"
    /\ ask_btn
    /\ user_question = ""
    /\ InDisplay(AskButton)
    /\ "completion" \in failures

-----------------------------------------------------------------------------
(* C2: with GROQ_API_KEY absent or empty, no state has the client          *)
(* constructed, a file read, a table sanitized, a prompt built or a        *)
(* completion call issued; the run stops at the check, having shown (after *)
(* the page title) the error and the instruction.                          *)
C2_NoCredentialNothingRuns ==
    GROQ_API_KEY \in {NoValue, ""} =>
        /\ ~GROQ_CLIENT
        /\ invoked = {}
        /\ calls = 0
        /\ prompt = NoPrompt
        /\ raw = None /\ df = None
        /\ snapshot_text = NoSnapshot /\ local_stats = NoStats
        /\ pc \in {"keycheck", "stopped"}
        /\ pc = "stopped" => display = <<Title, KeyErrorMsg, KeyInfoMsg>>

(* A run stopped at the check of an empty credential.                      *)
C2_Witness ==
    /\ GROQ_API_KEY = ""
    /\ pc = "stopped"
    /\ display = <<Title, KeyErrorMsg, KeyInfoMsg>>

-----------------------------------------------------------------------------
(* C3: a run whose read fails shows the error and stops with nothing but   *)
(* the reader invoked, the uploader still on the page; and every run that  *)
(* ends with a file held has read a readable file and run the whole        *)
(* pipeline on it, also after a read failure.                              *)
C3_ReadFailureHaltsRun ==
    /\ InDisplay(ReadErrorMsg) =>
          /\ pc = "stopped"
          /\ invoked = {"read"}
          /\ raw = None /\ df = None
          /\ snapshot_text = NoSnapshot /\ local_stats = NoStats
          /\ prompt = NoPrompt
          /\ calls = 0
          /\ InDisplay(Uploader)
    /\ (pc = "done" /\ uploaded # NoFile) =>
          /\ FileContent(uploaded).readable
          /\ PipelineFunctions \subseteq invoked
          /\ df = FreshFrame
          /\ snapshot_text = FreshSnapshot
          /\ local_stats = FreshStats
          /\ ~InDisplay(ReadErrorMsg)

(* A readable file processed to the end in a session that has seen a read  *)
(* fail.                                                                   *)
C3_Witness ==
    /\ pc = "done"
    /\ "read" \in failures
    /\ uploaded # NoFile
    /\ PipelineFunctions \subseteq invoked
    /\ df = FreshFrame

-----------------------------------------------------------------------------
(* A step that issues a completion call. *)
C4_CallStep ==
    calls' = calls + 1 =>
        /\ \/ display' = Append(display, AnswerMsg)
           \/ display' = Append(display, SummaryMsg)
           \/ /\ display' = display \o <<GroqErrorMsg, GroqHintMsg>>
              /\ "completion" \in failures'
        /\ pc' \in {"summary", "done"}
        /\ UNCHANGED <<raw, df, snapshot_text, local_stats, prompt>>
        /\ UNCHANGED <<uploaded, user_question, ask_btn, summary_btn>>

(* A step that leaves the end of a run: a user action. *)
C4_ActionStep ==
    (Idle /\ pc' # pc) =>
        /\ pc' = "keycheck"
        /\ raw' = None /\ df' = None
        /\ snapshot_text' = NoSnapshot /\ local_stats' = NoStats
        /\ prompt' = NoPrompt
        /\ calls' = 0 /\ invoked' = {}

(* What a run holds once its assets are built. *)
C4_RunHoldsFreshAssets ==
    pc \in {"ask", "ask_call", "summary", "summary_call", "done"} /\ uploaded # NoFile =>
        /\ raw = FileContent(uploaded).frame
        /\ df = FreshFrame
        /\ snapshot_text = FreshSnapshot
        /\ local_stats = FreshStats
        /\ PipelineFunctions \subseteq invoked

(* C4: a completion call, failed or not, changes neither the cleaned       *)
(* table nor the snapshot nor the stats nor the widgets, and a failed one  *)
(* shows the error and the hint; every action starts a run from scratch,   *)
(* and what a run holds once the assets are built is what the pipeline     *)
(* makes of the uploaded file, whatever failed before.                     *)
C4_FailureLeavesNoResidue ==
    /\ []C4_RunHoldsFreshAssets
    /\ [][C4_CallStep /\ C4_ActionStep]_vars

(* A request answered, with no error in its run, after a completion call   *)
(* of the session had failed.                                              *)
C4_Witness ==
    /\ pc = "done"
    /\ "completion" \in failures
    /\ calls = 1
    /\ ~ErrorShown
    /\ df = FreshFrame

-----------------------------------------------------------------------------
(* C10: a run issues at most one completion call: one iff Ask was pressed  *)
(* with a non-empty question or Generate Summary was pressed, none         *)
(* otherwise; a run in which a call failed has issued exactly that one.    *)
C10_OneCallPerRun ==
    /\ calls <= 1
    /\ ~(ask_btn /\ summary_btn)
    /\ calls = 1 => ((ask_btn /\ user_question # "") \/ summary_btn)
    /\ (pc = "done" /\ uploaded # NoFile) =>
          calls = IF (ask_btn /\ user_question # "") \/ summary_btn THEN 1 ELSE 0
    /\ InDisplay(GroqErrorMsg) => calls = 1

(* An Ask run ended after its one call failed.                             *)
C10_Witness ==
    /\ pc = "done"
    /\ ask_btn
    /\ calls = 1
    /\ InDisplay(GroqErrorMsg)

=============================================================================
